---- MODULE Spec2Model ----
(***************************************************************************)
(* Model of src/app.py: the /trace handler of the Solana AML monitor, its  *)
(* ledger client, the flow extractor, the tiered risk classifier and the   *)
(* label bookkeeping of the graph generator.                               *)
(***************************************************************************)
EXTENDS Integers, Sequences, FiniteSets, TLC

(***************************************************************************)
(* Python floats.  total_volume is a Python float (IEEE-754 binary64): a   *)
(* value is m * 2^e with a 53-bit significand m, 2^52 <= m < 2^53, kept in *)
(* two limbs, m = hi * 2^27 + lo, because TLC's integers have 32 bits.    *)
(* Zero is the float whose limbs are both zero.  All the amounts of the    *)
(* program are non-negative, so there is no sign.                          *)
(***************************************************************************)
LamportsPerSol == 1000000000

\* 2^27: the low limb of a significand is below it.
LimbBase == 2 ^ 27

\* 2^26: the high limb of a significand is below it (and at least 2^25).
HiBound == 2 ^ 26

\* 2^30: the low limb of a significand with three more bits below it.
WideBase == 2 ^ 30

Max(a, b) == IF a >= b THEN a ELSE b

Min(a, b) == IF a <= b THEN a ELSE b

FZero == [e |-> 0, hi |-> 0, lo |-> 0]

\* The significand plus one unit in its last place.
NextUp(e, hi, lo) ==
    IF lo + 1 < LimbBase THEN [e |-> e, hi |-> hi, lo |-> lo + 1]
    ELSE IF hi + 1 < HiBound THEN [e |-> e, hi |-> hi + 1, lo |-> 0]
    ELSE [e |-> e + 1, hi |-> HiBound \div 2, lo |-> 0]

\* The number of binary digits of a natural number below 2^30.
BitLen(k) == CHOOSE n \in 0..30 : k < 2 ^ n /\ (n = 0 \/ k >= 2 ^ (n - 1))

\* One step of the long division by 1e9: the next quotient bit is shifted
\* into the significand, until it holds 54 bits (53 and the rounding bit);
\* zero bits ahead of the first one only lower the exponent.
DivStep(st) ==
    IF st.n = 54 THEN st
    ELSE LET d   == 2 * st.rem
             bit == IF d >= LamportsPerSol THEN 1 ELSE 0
             rem == d - bit * LamportsPerSol
             lo2 == 2 * st.lo + bit
         IN IF st.n = 0 /\ bit = 0
            THEN [st EXCEPT !.rem = rem, !.e = @ - 1]
            ELSE [hi  |-> 2 * st.hi + (IF lo2 >= LimbBase THEN 1 ELSE 0),
                  lo  |-> lo2 % LimbBase,
                  n   |-> st.n + 1,
                  rem |-> rem,
                  e   |-> st.e - 1]

RECURSIVE DivSteps(_, _)
DivSteps(st, k) == IF k = 0 \/ st.n = 54 THEN st ELSE DivSteps(DivStep(st), k - 1)

\* float(lamports) / 1e9.  A lamports amount is the integer
\* sol * 1e9 + rem with 0 <= rem < 1e9 (kept in two parts because the
\* integer itself exceeds TLC's 32-bit integers); it is below 2^53, so
\* float(lamports) is exact and the quotient is lamports / 1e9 rounded to
\* nearest, ties to even.  A quotient below one starts within 30 bits of the
\* binary point, so 84 steps fill the 54 bits.
FDiv(lam) ==
    IF lam.sol = 0 /\ lam.rem = 0 THEN FZero
    ELSE LET st0 == [hi |-> 0, lo |-> lam.sol, n |-> BitLen(lam.sol),
                     rem |-> lam.rem, e |-> 0]
             st  == DivSteps(DivSteps(DivSteps(DivSteps(st0, 21), 21), 21), 21)
             lo  == st.lo \div 2 + (st.hi % 2) * (LimbBase \div 2)
             hi  == st.hi \div 2
             up  == st.lo % 2 = 1 /\ (st.rem # 0 \/ lo % 2 = 1)
         IN IF up THEN NextUp(st.e + 1, hi, lo)
            ELSE [e |-> st.e + 1, hi |-> hi, lo |-> lo]

\* The low limb of a wide significand with the sticky bit set in it when a one
\* was shifted out.
Jam(lo, sticky) == IF sticky /\ lo % 2 = 0 THEN lo + 1 ELSE lo

\* A wide significand (h * 2^30 + l) shifted right by d bits, with the sticky
\* bit.
ShiftRight(h, l, d) ==
    IF d = 0 THEN [h |-> h, l |-> l]
    ELSE IF d < 30
    THEN LET p == 2 ^ d
         IN [h |-> h \div p,
             l |-> Jam(l \div p + (h % p) * (2 ^ (30 - d)), l % p # 0)]
    ELSE IF d < 57
    THEN LET p == 2 ^ (d - 30)
         IN [h |-> 0, l |-> Jam(h \div p, l # 0 \/ h % p # 0)]
    ELSE [h |-> 0, l |-> 1]

\* Python's float + float: the exact sum, carried with three bits below the
\* significand of the larger operand, rounded to nearest, ties to even.
FAdd(a, b) ==
    IF a = FZero THEN b
    ELSE IF b = FZero THEN a
    ELSE LET big   == IF a.e >= b.e THEN a ELSE b
             small == IF a.e >= b.e THEN b ELSE a
             sh    == ShiftRight(small.hi, small.lo * 8, big.e - small.e)
             ls    == big.lo * 8 + sh.l
             c     == IF ls >= WideBase THEN 1 ELSE 0
             h     == big.hi + sh.h + c
             l     == ls - c * WideBase
             nrm   == IF h >= HiBound
                      THEN [e |-> big.e + 1, h |-> h \div 2,
                            l |-> Jam(l \div 2 + (h % 2) * (WideBase \div 2), l % 2 = 1)]
                      ELSE [e |-> big.e, h |-> h, l |-> l]
             lo    == nrm.l \div 8
             low3  == nrm.l % 8
         IN IF low3 > 4 \/ (low3 = 4 /\ lo % 2 = 1)
            THEN NextUp(nrm.e, nrm.h, lo)
            ELSE [e |-> nrm.e, hi |-> nrm.h, lo |-> lo]

\* float > n for a natural number n with 1 <= n < 2^20 (Python compares
\* exactly): the integer part of the float is hi \div 2^(-e - 27).
FGreaterInt(f, n) ==
    IF f = FZero \/ f.e <= -53 THEN FALSE
    ELSE IF f.e >= -31 THEN TRUE
    ELSE LET p == 2 ^ (-f.e - 27)
         IN \/ f.hi \div p > n
            \/ f.hi \div p = n /\ (f.hi % p # 0 \/ f.lo # 0)

\* The distance of two floats in units of the last place of the smaller one,
\* or 2^30 when it is larger than that.
UlpDistance(a, b) ==
    LET big   == IF a.e >= b.e THEN a ELSE b
        small == IF a.e >= b.e THEN b ELSE a
        k     == 2 ^ Min(big.e - small.e, 1)
        dh    == k * big.hi - small.hi
        dl    == k * big.lo - small.lo
    IN IF a = b THEN 0
       ELSE IF a = FZero \/ b = FZero \/ big.e - small.e > 1 \/ dh > 4 \/ dh < -4
       THEN WideBase
       ELSE LET dist == dh * LimbBase + dl
            IN IF dist < 0 THEN -dist ELSE dist

(***************************************************************************)
(* Values.  A Python string is the sequence of its characters; None is a   *)
(* value of its own, and "" is the empty sequence.                         *)
(***************************************************************************)
NoneVal == <<"None">>

EmptyStr == <<>>

W1 == <<"W", "1">>

W2 == <<"W", "2">>

AddrA == <<"A">>

AddrB == <<"B">>

\* Two long addresses that agree on their first six and last four characters.
LongP == <<"S", "o", "1", "a", "n", "a", "P", "x", "y", "z", "9">>

LongQ == <<"S", "o", "1", "a", "n", "a", "Q", "x", "y", "z", "9">>

FakeRiskyWallet123 ==
    <<"F", "a", "k", "e", "R", "i", "s", "k", "y", "W", "a", "l", "l", "e", "t", "1", "2", "3">>

DarknetVendor456 ==
    <<"D", "a", "r", "k", "n", "e", "t", "V", "e", "n", "d", "o", "r", "4", "5", "6">>

OFACBlacklisted789 ==
    <<"O", "F", "A", "C", "B", "l", "a", "c", "k", "l", "i", "s", "t", "e", "d", "7", "8", "9">>

HIGH_RISK_WALLETS == {FakeRiskyWallet123, DarknetVendor456, OFACBlacklisted789}

\* An integer amount of lamports, sol * 1e9 + rem.
Lamports(sol, rem) == [present |-> TRUE, sol |-> sol, rem |-> rem]

\* An info block without a "lamports" key.
NoLamports == [present |-> FALSE, sol |-> 0, rem |-> 0]

(***************************************************************************)
(* JSON values of the ledger's responses.                                  *)
(***************************************************************************)
\* An instruction without a "parsed" key.
RawInstr ==
    [kind |-> "raw", has_info |-> FALSE, source |-> NoneVal,
     destination |-> NoneVal, lamports |-> NoLamports]

\* An instruction whose "parsed" is an object without "info".
ParsedNoInfo ==
    [kind |-> "parsed", has_info |-> FALSE, source |-> NoneVal,
     destination |-> NoneVal, lamports |-> NoLamports]

\* An instruction whose "parsed" is a string (a memo); has_info says whether
\* the text contains "info".
Memo(has_info) ==
    [kind |-> "memo", has_info |-> has_info, source |-> NoneVal,
     destination |-> NoneVal, lamports |-> NoLamports]

\* An instruction with a parsed info block; an absent source or destination
\* is NoneVal, as parsed.get() returns it.
Transfer(source, destination, lamports) ==
    [kind |-> "parsed", has_info |-> TRUE, source |-> source,
     destination |-> destination, lamports |-> lamports]

\* A transaction detail: shape "none" is null, "empty" is {}, "notx" an object
\* without "transaction", "nomsg" one whose transaction has no "message",
\* "noinstr" one whose message has no "instructions", "full" the whole.
Detail(shape, instructions) == [shape |-> shape, instructions |-> instructions]

\* An HTTP response of the RPC endpoint.  kind "garbage" is a body that is no
\* JSON, "noresult" a JSON object without "result", "null" one whose result is
\* null, "value" one whose result is `result`.
Response(status, kind, result) == [status |-> status, kind |-> kind, result |-> result]

(***************************************************************************)
(* Ledger client.                                                          *)
(***************************************************************************)
\* The outcome of a call: the exception raised ("none" when it returns) and
\* the value returned.
Returns(v) == [err |-> "none", value |-> v]

Raises(e, v) == [err |-> e, value |-> v]

ListCall(wallet_address) == [method |-> "getSignaturesForAddress", param |-> wallet_address]

DetailCall(signature) == [method |-> "getTransaction", param |-> signature]

\* get_wallet_transactions, from the response on.
GetWalletTransactions(response) ==
    IF response.status # 200 THEN Returns(<<>>)
    ELSE IF response.kind = "garbage" THEN Raises("JSONDecodeError", <<>>)
    ELSE IF response.kind = "noresult" THEN Returns(<<>>)
    ELSE IF response.kind = "null" THEN Raises("TypeError", <<>>)
    ELSE Returns(response.result)

\* get_transaction_details, from the response on.
GetTransactionDetails(response) ==
    IF response.status # 200 THEN Returns(Detail("empty", <<>>))
    ELSE IF response.kind = "garbage" THEN Raises("JSONDecodeError", Detail("none", <<>>))
    ELSE IF response.kind = "noresult" THEN Returns(Detail("empty", <<>>))
    ELSE IF response.kind = "null" THEN Returns(Detail("none", <<>>))
    ELSE Returns(response.result)

(***************************************************************************)
(* Flow extractor.  flow_dict is a Python dict: the sequence of its        *)
(* <<key, value>> items in insertion order.                                *)
(***************************************************************************)
FlowKeys(flow) == {flow[i][1] : i \in 1..Len(flow)}

FlowGet(flow, key) ==
    IF key \in FlowKeys(flow)
    THEN flow[CHOOSE i \in 1..Len(flow) : flow[i][1] = key][2]
    ELSE 0

\* flow_dict[receiver] = flow_dict.get(receiver, 0) + 1
FlowPut(flow, receiver) ==
    IF receiver \in FlowKeys(flow)
    THEN [i \in 1..Len(flow) |->
            IF flow[i][1] = receiver THEN <<receiver, flow[i][2] + 1>> ELSE flow[i]]
    ELSE Append(flow, <<receiver, 1>>)

\* if not details or "transaction" not in details: continue
SkipsDetail(details) == details.shape \in {"none", "empty", "notx"}

\* details["transaction"]["message"]["instructions"] raises KeyError
LacksInstructions(details) == details.shape \in {"nomsg", "noinstr"}

\* "parsed" in instruction and "info" in instruction["parsed"]
HasInfo(instruction) == instruction.kind # "raw" /\ instruction.has_info

\* float(parsed.get("lamports", 0)) / 1e9
Amount(parsed) ==
    FDiv(IF parsed.lamports.present THEN parsed.lamports ELSE Lamports(0, 0))

QualifiesAnyReceiver(sender, receiver, wallet_address) == sender = wallet_address

\* sender == wallet_address and receiver
Qualifies(sender, receiver, wallet_address) ==
    sender = wallet_address /\ receiver # NoneVal /\ receiver # EmptyStr

AddVolumeAlways(total, amount, qualifies) == FAdd(total, amount)

AddVolumeAssign(total, amount, qualifies) == IF qualifies THEN amount ELSE total

\* if sender == wallet_address and receiver: total_volume += amount
AddVolume(total, amount, qualifies) ==
    IF qualifies THEN FAdd(total, amount) ELSE total

RECURSIVE ExtractInstructions(_, _, _, _)
\* The loop over one transaction's instructions, from instruction k on.
ExtractInstructions(wallet_address, instructions, k, acc) ==
    IF k > Len(instructions) THEN acc
    ELSE LET instruction == instructions[k]
         IN IF ~HasInfo(instruction)
            THEN ExtractInstructions(wallet_address, instructions, k + 1, acc)
            ELSE IF instruction.kind = "memo"
            THEN [acc EXCEPT !.err = "TypeError"]
            ELSE LET q == Qualifies(instruction.source, instruction.destination,
                                    wallet_address)
                 IN ExtractInstructions(wallet_address, instructions, k + 1,
                        [err   |-> "none",
                         flow  |-> IF q THEN FlowPut(acc.flow, instruction.destination)
                                   ELSE acc.flow,
                         total |-> AddVolume(acc.total, Amount(instruction), q)])

\* One pass of the loop over the transactions, from the detail fetched on.
ExtractDetail(wallet_address, fetched, flow, total) ==
    LET acc == [err |-> fetched.err, flow |-> flow, total |-> total]
    IN IF fetched.err # "none" THEN acc
       ELSE IF SkipsDetail(fetched.value) THEN acc
       ELSE IF LacksInstructions(fetched.value) THEN [acc EXCEPT !.err = "KeyError"]
       ELSE ExtractInstructions(wallet_address, fetched.value.instructions, 1, acc)

(***************************************************************************)
(* Risk classifier.                                                        *)
(***************************************************************************)
HighFrequencyAtLeast(transaction_count) == transaction_count >= 50

\* transaction_count > 50
HighFrequency(transaction_count) == transaction_count > 50

\* total_volume > 10000
LargeVolume(total) == FGreaterInt(total, 10000)

\* any(wallet in HIGH_RISK_WALLETS for wallet in counterparty_wallets)
KnownRisky(counterparty_wallets) == counterparty_wallets \cap HIGH_RISK_WALLETS # {}

RiskScore(transaction_count, total, counterparty_wallets) ==
    (IF HighFrequency(transaction_count) THEN 20 ELSE 0)
      + (IF LargeVolume(total) THEN 30 ELSE 0)
      + (IF KnownRisky(counterparty_wallets) THEN 50 ELSE 0)

RiskLabel(score) ==
    IF score >= 50 THEN "High Risk" ELSE IF score >= 30 THEN "Medium Risk" ELSE "Low Risk"

assign_risk_score(transaction_count, total, counterparty_wallets) ==
    RiskLabel(RiskScore(transaction_count, total, counterparty_wallets))

(***************************************************************************)
(* Graph generator: the nodes, their attributes and their hover texts.     *)
(***************************************************************************)
\* receiver[:6]
First6(str) == SubSeq(str, 1, Min(6, Len(str)))

\* receiver[-4:]
Last4(str) == SubSeq(str, Max(1, Len(str) - 3), Len(str))

\* f"{receiver[:6]}...{receiver[-4:]} ({count})"
NodeLabel(receiver, count) ==
    [text |-> First6(receiver) \o <<".", ".", ".">> \o Last4(receiver), count |-> count]

NodeSize(count) == count * 10 + 50

NodeColor(count) == IF count = 1 THEN "green" ELSE IF count <= 5 THEN "yellow" ELSE "red"

\* G.add_node(node, size=..., color=...): a new node goes last, a known one
\* keeps its place and takes the new attributes.
AddNode(nodes, node, size, color) ==
    IF \E i \in 1..Len(nodes) : nodes[i].id = node
    THEN [i \in 1..Len(nodes) |->
            IF nodes[i].id = node THEN [id |-> node, size |-> size, color |-> color]
            ELSE nodes[i]]
    ELSE Append(nodes, [id |-> node, size |-> size, color |-> color])

RECURSIVE BuildGraph(_, _, _, _)
\* The loop over transaction_flows.items(), from item k on.
BuildGraph(wallet_address, flow, k, acc) ==
    IF k > Len(flow) THEN acc
    ELSE LET receiver == flow[k][1]
             count    == flow[k][2]
         IN BuildGraph(wallet_address, flow, k + 1,
                [nodes  |-> AddNode(acc.nodes, receiver, NodeSize(count), NodeColor(count)),
                 labels |-> Append(acc.labels, NodeLabel(receiver, count))])

RECURSIVE NodeTexts(_, _, _, _, _)
\* The loop over G.nodes(), from node k on: the wallet's node shows the
\* address, every other node the next label popped from node_labels.
NodeTexts(wallet_address, nodes, k, labels, texts) ==
    IF k > Len(nodes) THEN [node_text |-> texts, node_labels |-> labels]
    ELSE IF nodes[k].id = wallet_address
    THEN NodeTexts(wallet_address, nodes, k + 1, labels,
                   Append(texts, [text |-> wallet_address, count |-> 0]))
    ELSE NodeTexts(wallet_address, nodes, k + 1, Tail(labels),
                   Append(texts, Head(labels)))

\* generate_network_graph: the nodes in G.nodes() order, each node's hover
\* text, the labels built and the labels left in node_labels at the end.
generate_network_graph(wallet_address, transaction_flows) ==
    LET built == BuildGraph(wallet_address, transaction_flows, 1,
                     [nodes  |-> <<[id |-> wallet_address, size |-> 100, color |-> "blue"]>>,
                      labels |-> <<>>])
        shown == NodeTexts(wallet_address, built.nodes, 1, built.labels, <<>>)
    IN [nodes     |-> built.nodes,
        node_text |-> shown.node_text,
        built     |-> built.labels,
        left      |-> shown.node_labels]

NoGraph == [nodes |-> <<>>, node_text |-> <<>>, built |-> <<>>, left |-> <<>>]

(***************************************************************************)
(* Bounds and inputs.                                                      *)
(***************************************************************************)
\* Longest transaction id listing the ledger returns.
MaxList == 2

\* Most flow entries handed to the graph generator on its own.
MaxFlow == 3

\* Largest transaction count handed to the classifier on its own.
MaxCount == 52

Requests == {1, 2}

\* The injective sequences over S of length at most n.
InjSeqs(S, n) ==
    {q \in UNION {[1..k -> S] : k \in 0..n} :
        \A i, j \in 1..Len(q) : i # j => q[i] # q[j]}

OneSol == Lamports(1, 0)

\* The ledger of the one-request specification: one transaction id per shape
\* of response.
MainLedger ==
    <<Response(500, "garbage", <<>>),
      Response(200, "garbage", <<>>),
      Response(200, "noresult", <<>>),
      Response(200, "null", <<>>),
      Response(200, "value", Detail("empty", <<>>)),
      Response(200, "value", Detail("notx", <<>>)),
      Response(200, "value", Detail("nomsg", <<>>)),
      Response(200, "value", Detail("noinstr", <<>>)),
      Response(200, "value", Detail("full",
          <<RawInstr, ParsedNoInfo, Memo(FALSE),
            Transfer(W1, AddrA, Lamports(0, 100000000)),
            Transfer(W2, W1, Lamports(5, 0)),
            Transfer(W1, EmptyStr, OneSol),
            Transfer(W1, NoneVal, OneSol),
            Transfer(NoneVal, AddrB, OneSol),
            Transfer(EmptyStr, AddrB, Lamports(0, 1))>>)),
      Response(200, "value", Detail("full",
          <<Transfer(W1, AddrA, Lamports(0, 200000000)),
            Transfer(W1, W1, NoLamports),
            Transfer(W1, FakeRiskyWallet123, Lamports(10001, 0)),
            Transfer(W2, AddrA, Lamports(10000, 0))>>)),
      Response(200, "value", Detail("full",
          <<Transfer(W1, AddrB, Lamports(0, 300000000)),
            Transfer(W2, AddrB, Lamports(0, 1))>>)),
      Response(200, "value", Detail("full", <<Memo(TRUE)>>))>>

\* The ledger of the two-request specification: well-formed transactions
\* moving tenths of a SOL out of W1 and whole SOL out of W2.
PairLedger ==
    <<Response(200, "value", Detail("full",
          <<Transfer(W1, AddrA, Lamports(0, 100000000)),
            Transfer(W1, AddrB, Lamports(0, 200000000)),
            Transfer(W2, AddrA, Lamports(1, 0))>>)),
      Response(200, "value", Detail("full",
          <<Transfer(W1, AddrA, Lamports(0, 400000000)),
            Transfer(W2, AddrB, Lamports(2, 0))>>)),
      Response(200, "value", Detail("full",
          <<Transfer(W1, AddrB, Lamports(0, 300000000)),
            Transfer(W2, W2, Lamports(0, 100000000))>>))>>

\* The responses to getSignaturesForAddress over a ledger's transaction ids.
ListResponses(ids, n) ==
    {Response(500, "garbage", <<>>), Response(200, "garbage", <<>>),
     Response(200, "noresult", <<>>), Response(200, "null", <<>>)}
      \cup {Response(200, "value", q) : q \in InjSeqs(ids, n)}

Wallets == {NoneVal, EmptyStr, W1, W2}

VARIABLES
    wallet,        \* per request: data.get("wallet")
    listResp,      \* per request: the ledger's answer to getSignaturesForAddress
    ledger,        \* per transaction id: the ledger's answer to getTransaction
    pc,            \* per request: where trace_wallet stands
    transactions,  \* per request: the listing
    idx,           \* per request: position of the loop over the listing
    flow_dict,     \* per request: extract_transaction_flows' mapping
    total_volume,  \* per request: extract_transaction_flows' total
    rpc_log,       \* per request: the RPC calls issued, in order
    inflight,      \* per request: the RPC calls not yet answered
    resp,          \* per request: the HTTP response of /trace
    risk_in, risk_out,    \* the classifier on its own
    graph_in, graph_out   \* the graph generator on its own

vars == <<wallet, listResp, ledger, pc, transactions, idx, flow_dict, total_volume,
          rpc_log, inflight, resp, risk_in, risk_out, graph_in, graph_out>>

inputs == <<wallet, listResp, ledger>>

standalone == <<risk_in, risk_out, graph_in, graph_out>>

NoResp == [status |-> 0, error |-> "", risk_score |-> "", graph |-> NoGraph]

NoRisk == [score |-> -1, label |-> ""]

NoRiskIn == [count |-> 0, lamports |-> NoLamports, counterparties |-> {}]

NoGraphIn == [wallet |-> NoneVal, flow |-> <<>>]

SharedStore(store, r, v) == [q \in DOMAIN store |-> v]

\* The locals of one call: each request has its own.
LocalStore(store, r, v) == [store EXCEPT ![r] = v]

NeverEmpty(txs) == FALSE

\* if not transactions
NoTransactions(txs) == txs = <<>>

InitRequests ==
    /\ pc = [r \in Requests |-> "idle"]
    /\ transactions = [r \in Requests |-> <<>>]
    /\ idx = [r \in Requests |-> 0]
    /\ flow_dict = [r \in Requests |-> <<>>]
    /\ total_volume = [r \in Requests |-> FZero]
    /\ rpc_log = [r \in Requests |-> <<>>]
    /\ inflight = [r \in Requests |-> {}]
    /\ resp = [r \in Requests |-> NoResp]

InitStandalone ==
    /\ risk_in = NoRiskIn
    /\ risk_out = NoRisk
    /\ graph_in = NoGraphIn
    /\ graph_out = NoGraph

\* One request against the ledger of all response shapes.
Init ==
    /\ ledger = MainLedger
    /\ \E w \in Wallets : wallet = [r \in Requests |-> w]
    /\ \E l \in ListResponses(DOMAIN MainLedger, MaxList) :
          listResp = [r \in Requests |-> l]
    /\ InitRequests
    /\ InitStandalone

\* Two requests, for the same wallet or for two, against one ledger.
InitPair ==
    /\ ledger = PairLedger
    /\ wallet \in [Requests -> {W1, W2}]
    /\ listResp \in [Requests ->
          {Response(200, "value", q) : q \in InjSeqs(DOMAIN PairLedger, MaxList)}]
    /\ InitRequests
    /\ InitStandalone

\* trace_wallet up to the request sent by get_wallet_transactions.
Start(r) ==
    /\ pc[r] = "idle"
    /\ rpc_log' = [rpc_log EXCEPT ![r] = Append(@, ListCall(wallet[r]))]
    /\ inflight' = [inflight EXCEPT ![r] = @ \cup {ListCall(wallet[r])}]
    /\ pc' = [pc EXCEPT ![r] = "await_list"]
    /\ UNCHANGED <<inputs, transactions, idx, flow_dict, total_volume, resp, standalone>>

\* get_wallet_transactions returns (or raises); trace_wallet answers 404 on
\* an empty listing and enters extract_transaction_flows otherwise.
RecvList(r) ==
    /\ pc[r] = "await_list"
    /\ LET out == GetWalletTransactions(listResp[r])
       IN /\ inflight' = [inflight EXCEPT ![r] = @ \ {ListCall(wallet[r])}]
          /\ transactions' = [transactions EXCEPT ![r] = out.value]
          /\ IF out.err # "none"
             THEN /\ pc' = [pc EXCEPT ![r] = "failed"]
                  /\ resp' = [resp EXCEPT ![r] = [NoResp EXCEPT !.status = 500, !.error = out.err]]
                  /\ UNCHANGED <<idx, flow_dict, total_volume>>
             ELSE IF NoTransactions(out.value)
             THEN /\ pc' = [pc EXCEPT ![r] = "done"]
                  /\ resp' = [resp EXCEPT ![r] =
                                [NoResp EXCEPT !.status = 404, !.error = "No transactions found"]]
                  /\ UNCHANGED <<idx, flow_dict, total_volume>>
             ELSE /\ pc' = [pc EXCEPT ![r] = "loop"]
                  /\ idx' = [idx EXCEPT ![r] = 1]
                  /\ flow_dict' = LocalStore(flow_dict, r, <<>>)
                  /\ total_volume' = LocalStore(total_volume, r, FZero)
                  /\ UNCHANGED resp
    /\ UNCHANGED <<inputs, rpc_log, standalone>>

\* The loop of extract_transaction_flows up to the request sent by
\* get_transaction_details.
SendDetail(r) ==
    /\ pc[r] = "loop"
    /\ idx[r] <= Len(transactions[r])
    /\ LET call == DetailCall(transactions[r][idx[r]])
       IN /\ rpc_log' = [rpc_log EXCEPT ![r] = Append(@, call)]
          /\ inflight' = [inflight EXCEPT ![r] = @ \cup {call}]
    /\ pc' = [pc EXCEPT ![r] = "await_detail"]
    /\ UNCHANGED <<inputs, transactions, idx, flow_dict, total_volume, resp, standalone>>

\* get_transaction_details returns (or raises) and the loop body runs.
RecvDetail(r) ==
    /\ pc[r] = "await_detail"
    /\ LET tx  == transactions[r][idx[r]]
           out == ExtractDetail(wallet[r], GetTransactionDetails(ledger[tx]),
                                flow_dict[r], total_volume[r])
       IN /\ inflight' = [inflight EXCEPT ![r] = @ \ {DetailCall(tx)}]
          /\ flow_dict' = LocalStore(flow_dict, r, out.flow)
          /\ total_volume' = LocalStore(total_volume, r, out.total)
          /\ IF out.err # "none"
             THEN /\ pc' = [pc EXCEPT ![r] = "failed"]
                  /\ resp' = [resp EXCEPT ![r] = [NoResp EXCEPT !.status = 500, !.error = out.err]]
                  /\ UNCHANGED idx
             ELSE /\ pc' = [pc EXCEPT ![r] = "loop"]
                  /\ idx' = [idx EXCEPT ![r] = @ + 1]
                  /\ UNCHANGED resp
    /\ UNCHANGED <<inputs, transactions, rpc_log, standalone>>

\* extract_transaction_flows returns; assign_risk_score and
\* generate_network_graph run and trace_wallet answers.  networkx refuses
\* None as a node.
Finish(r) ==
    /\ pc[r] = "loop"
    /\ idx[r] > Len(transactions[r])
    /\ IF wallet[r] = NoneVal
       THEN /\ pc' = [pc EXCEPT ![r] = "failed"]
            /\ resp' = [resp EXCEPT ![r] = [NoResp EXCEPT !.status = 500, !.error = "ValueError"]]
       ELSE /\ pc' = [pc EXCEPT ![r] = "done"]
            /\ resp' = [resp EXCEPT ![r] =
                          [status     |-> 200,
                           error      |-> "",
                           risk_score |-> assign_risk_score(Len(flow_dict[r]), total_volume[r],
                                                            FlowKeys(flow_dict[r])),
                           graph      |-> generate_network_graph(wallet[r], flow_dict[r])]]
    /\ UNCHANGED <<inputs, transactions, idx, flow_dict, total_volume, rpc_log, inflight,
                   standalone>>

Handle(r) == Start(r) \/ RecvList(r) \/ SendDetail(r) \/ RecvDetail(r) \/ Finish(r)

Next == Handle(1)

Spec == Init /\ [][Next]_vars

NextPair == \E r \in Requests : Handle(r)

SpecPair == InitPair /\ [][NextPair]_vars
(***************************************************************************)
(* The classifier and the graph generator on their own.                    *)
(***************************************************************************)
FakeLower ==
    <<"f", "a", "k", "e", "r", "i", "s", "k", "y", "w", "a", "l", "l", "e", "t", "1", "2", "3">>

\* Volumes around the threshold of 10,000, as lamports.
RiskLamports ==
    {Lamports(0, 0), Lamports(5, 0), Lamports(9999, 999999999), Lamports(10000, 0),
     Lamports(10000, 1), Lamports(10001, 0)}

RiskInputs ==
    [count          : 0..MaxCount,
     lamports       : RiskLamports,
     counterparties : SUBSET {AddrA, FakeLower, FakeRiskyWallet123, OFACBlacklisted789}]

GraphAddrs == {AddrA, W1, LongP, LongQ}

\* The flow mappings of at most MaxFlow entries: distinct keys, counts on
\* either side of the colour thresholds.
GraphFlows ==
    {f \in UNION {[1..k -> GraphAddrs \X {1, 2, 6}] : k \in 0..MaxFlow} :
        \A i, j \in 1..Len(f) : i # j => f[i][1] # f[j][1]}

InitIdle ==
    /\ ledger = <<>>
    /\ wallet = [r \in Requests |-> NoneVal]
    /\ listResp = [r \in Requests |-> Response(500, "garbage", <<>>)]
    /\ InitRequests

InitRisk ==
    /\ InitIdle
    /\ risk_in \in RiskInputs
    /\ risk_out = NoRisk
    /\ graph_in = NoGraphIn
    /\ graph_out = NoGraph

\* assign_risk_score applied to the inputs.
Classify ==
    /\ risk_out = NoRisk
    /\ risk_out' = [score |-> RiskScore(risk_in.count, FDiv(risk_in.lamports),
                                        risk_in.counterparties),
                    label |-> assign_risk_score(risk_in.count, FDiv(risk_in.lamports),
                                                risk_in.counterparties)]
    /\ UNCHANGED <<inputs, pc, transactions, idx, flow_dict, total_volume, rpc_log,
                   inflight, resp, risk_in, graph_in, graph_out>>

SpecRisk == InitRisk /\ [][Classify]_vars

InitGraph ==
    /\ InitIdle
    /\ risk_in = NoRiskIn
    /\ risk_out = NoRisk
    /\ graph_in \in [wallet : {W1, W2}, flow : GraphFlows]
    /\ graph_out = NoGraph

\* generate_network_graph applied to the inputs.
Generate ==
    /\ graph_out = NoGraph
    /\ graph_out' = generate_network_graph(graph_in.wallet, graph_in.flow)
    /\ UNCHANGED <<inputs, pc, transactions, idx, flow_dict, total_volume, rpc_log,
                   inflight, resp, risk_in, risk_out, graph_in>>

SpecGraph == InitGraph /\ [][Generate]_vars

(***************************************************************************)
(* Properties.                                                             *)
(***************************************************************************)
\* extract_transaction_flows has returned for request r.
Extracted(r) ==
    \/ pc[r] = "loop" /\ idx[r] > Len(transactions[r])
    \/ pc[r] = "done" /\ resp[r].status = 200

\* The ledger returns a detail with an instruction list for transaction tx.
WellFormed(tx) ==
    /\ ledger[tx].status = 200
    /\ ledger[tx].kind = "value"
    /\ ledger[tx].result.shape = "full"

InstructionsOf(tx) == IF WellFormed(tx) THEN ledger[tx].result.instructions ELSE <<>>

\* The instruction is a transfer out of the wallet: a parsed info block whose
\* source is the wallet address and whose destination is not empty.
Outgoing(instruction, w) ==
    /\ instruction.kind = "parsed"
    /\ instruction.has_info
    /\ instruction.source = w
    /\ instruction.destination \notin {NoneVal, EmptyStr}

\* The positions <<i, k>> (transaction i of the listing, instruction k) of the
\* qualifying transfers of request r.
QualifyingAt(r) ==
    UNION {{<<i, k>> : k \in {m \in 1..Len(InstructionsOf(transactions[r][i])) :
                                Outgoing(InstructionsOf(transactions[r][i])[m], wallet[r])}} :
           i \in 1..Len(transactions[r])}

DestinationAt(r, p) == InstructionsOf(transactions[r][p[1]])[p[2]].destination

\* C1: once extract_transaction_flows has returned for a wallet address, the
\* mapping has an entry for d exactly when some qualifying transfer (source
\* the wallet address, destination non-empty) goes to d, each address once,
\* and the entry counts those transfers; it is empty without any.
C1_FlowEntries ==
    \A r \in Requests :
        (Extracted(r) /\ wallet[r] # NoneVal) =>
            /\ FlowKeys(flow_dict[r]) = {DestinationAt(r, p) : p \in QualifyingAt(r)}
            /\ \A i, j \in 1..Len(flow_dict[r]) :
                  i # j => flow_dict[r][i][1] # flow_dict[r][j][1]
            /\ \A i \in 1..Len(flow_dict[r]) :
                  flow_dict[r][i][2] =
                     Cardinality({p \in QualifyingAt(r) :
                                     DestinationAt(r, p) = flow_dict[r][i][1]})
            /\ (QualifyingAt(r) = {} => flow_dict[r] = <<>>)

\* C1's case: an address paid twice, in two transactions, beside transfers
\* that do not qualify.
C1_Witness ==
    /\ Extracted(1)
    /\ wallet[1] = W1
    /\ FlowGet(flow_dict[1], AddrA) = 2
    /\ Len(flow_dict[1]) >= 3

\* The qualifying transfers of the first n transactions of the listing, in the
\* order the loops meet them.
RECURSIVE QualifyingSeq(_, _)
QualifyingSeq(r, n) ==
    IF n = 0 THEN <<>>
    ELSE QualifyingSeq(r, n - 1)
           \o SelectSeq(InstructionsOf(transactions[r][n]),
                        LAMBDA ins : Outgoing(ins, wallet[r]))

\* lamports / 1e9, a missing amount counting as 0.
SolOf(instruction) ==
    IF instruction.lamports.present THEN FDiv(instruction.lamports) ELSE FZero

RECURSIVE FloatSum(_, _)
\* The float sum of the first n amounts, added from the left.
FloatSum(q, n) == IF n = 0 THEN FZero ELSE FAdd(FloatSum(q, n - 1), SolOf(q[n]))

\* C2: once extract_transaction_flows has returned for a wallet address, the
\* total volume is the sum of lamports / 1e9 over exactly the qualifying
\* transfers (added in the order met); with one qualifying transfer it is
\* that transfer's lamports / 1e9, with none it is 0.
C2_TotalVolume ==
    \A r \in Requests :
        (Extracted(r) /\ wallet[r] # NoneVal) =>
            LET q == QualifyingSeq(r, Len(transactions[r]))
            IN /\ total_volume[r] = FloatSum(q, Len(q))
               /\ (Len(q) = 1 => total_volume[r] = SolOf(q[1]))
               /\ (Len(q) = 0 => total_volume[r] = FZero)

\* C2's case: two qualifying transfers in two transactions, one of which also
\* holds transfers that do not qualify.
C2_Witness ==
    /\ Extracted(1)
    /\ wallet[1] = W1
    /\ transactions[1] = <<9, 11>>
    /\ total_volume[1] = FDiv(Lamports(0, 400000000))

\* Two listings hold the same transaction ids, each as often.
IsPermutation(p, q) ==
    /\ Len(p) = Len(q)
    /\ \A t \in {p[i] : i \in 1..Len(p)} \cup {q[i] : i \in 1..Len(q)} :
          Cardinality({i \in 1..Len(p) : p[i] = t}) = Cardinality({i \in 1..Len(q) : q[i] = t})

\* Two mappings hold the same entries, whatever their order.
SameMapping(f, g) == {f[i] : i \in 1..Len(f)} = {g[i] : i \in 1..Len(g)}

Permuted ==
    /\ Extracted(1)
    /\ Extracted(2)
    /\ wallet[1] = wallet[2]
    /\ IsPermutation(transactions[1], transactions[2])

\* C3 as stated: over permuted listings the per-destination aggregates and the
\* total volume are the same.
C3_OrderIndependentExact ==
    Permuted =>
        /\ SameMapping(flow_dict[1], flow_dict[2])
        /\ total_volume[1] = total_volume[2]

\* C3 amended: over permuted listings the per-destination aggregates are the
\* same and the total volumes agree up to floating-point rounding, within
\* 2^12 units in the last place (a relative difference of 2^-40).
C3_OrderIndependent ==
    Permuted =>
        /\ SameMapping(flow_dict[1], flow_dict[2])
        /\ UlpDistance(total_volume[1], total_volume[2]) <= 4096

\* C3's case: two different orders of the same listing, whose totals differ in
\* the last place.
C3_Witness ==
    /\ Permuted
    /\ transactions[1] # transactions[2]
    /\ Len(flow_dict[1]) = 2
    /\ UlpDistance(total_volume[1], total_volume[2]) = 1

\* C4: the score is 20 for more than 50 counterparties, plus 30 for a volume
\* above 10,000, plus 50 for a counterparty that is on the denylist letter for
\* letter; High from 50, Medium from 30, Low below; exactly 50 counterparties
\* and exactly 10,000 add nothing, and a denylisted counterparty alone is High.
C4_TieredScore ==
    risk_out # NoRisk =>
        LET many   == risk_in.count >= 51
            large  == \/ risk_in.lamports.sol > 10000
                      \/ risk_in.lamports.sol = 10000 /\ risk_in.lamports.rem > 0
            listed == \E w \in risk_in.counterparties :
                         w \in {FakeRiskyWallet123, DarknetVendor456, OFACBlacklisted789}
            score  == (IF many THEN 20 ELSE 0) + (IF large THEN 30 ELSE 0)
                        + (IF listed THEN 50 ELSE 0)
        IN /\ risk_out.score = score
           /\ risk_out.label = "High Risk" <=> score >= 50
           /\ risk_out.label = "Medium Risk" <=> (score >= 30 /\ score < 50)
           /\ risk_out.label = "Low Risk" <=> score < 30
           /\ (risk_in.count = 0 /\ risk_in.lamports.sol = 0 /\ ~listed
                 => risk_out.label = "Low Risk")
           /\ (risk_in.lamports = Lamports(10001, 0) => risk_out.label # "Low Risk")
           /\ (risk_in.count <= 50 /\ risk_in.lamports = Lamports(10000, 0) /\ ~listed
                 => risk_out.score = 0)
           /\ (listed => risk_out.label = "High Risk")

\* C4's case: 51 counterparties and a volume one lamport above 10,000, none
\* denylisted (the lower-case spelling is not on the list): 20 + 30 is High.
C4_Witness ==
    /\ risk_out.score = 50
    /\ risk_in.count = 51
    /\ risk_in.lamports = Lamports(10000, 1)
    /\ risk_in.counterparties = {FakeLower}

\* C5 as stated: for an empty or absent wallet address no RPC request is
\* issued.
C5_InvalidInputRejected ==
    \A r \in Requests : wallet[r] \in {NoneVal, EmptyStr} => rpc_log[r] = <<>>

\* The ledger's answer for a transaction holds no usable detail: none at all,
\* or one without a message or without an instruction list.
Malformed(response) ==
    \/ response.status # 200
    \/ response.kind \in {"noresult", "null"}
    \/ response.kind = "value" /\ response.result.shape # "full"

\* C6 as stated: extract_transaction_flows does not raise on a malformed
\* transaction.
C6_MalformedSkipped ==
    \A r \in Requests :
        (pc[r] = "failed" /\ Len(rpc_log[r]) > 1 /\ idx[r] <= Len(transactions[r]))
            => ~Malformed(ledger[transactions[r][idx[r]]])

\* get_wallet_transactions has returned an empty listing for request r.
ListedEmpty(r) ==
    /\ pc[r] \notin {"idle", "await_list"}
    /\ resp[r].status # 500
    /\ transactions[r] = <<>>

\* C7: an empty listing ends the request with the 404 "No transactions found"
\* response, without a getTransaction call, a flow mapping, a risk score or a
\* graph; a success payload is only produced after a non-empty listing.
C7_NoTransactionsFound ==
    \A r \in Requests :
        /\ ListedEmpty(r) =>
              /\ pc[r] = "done"
              /\ resp[r] = [NoResp EXCEPT !.status = 404, !.error = "No transactions found"]
              /\ rpc_log[r] = <<ListCall(wallet[r])>>
              /\ inflight[r] = {}
              /\ flow_dict[r] = <<>>
        /\ resp[r].status = 404 => ListedEmpty(r)
        /\ resp[r].status = 200 =>
              /\ transactions[r] # <<>>
              /\ resp[r].graph # NoGraph
              /\ resp[r].risk_score # ""

\* C7's case: the ledger answers with an empty result list and the request
\* has ended.
C7_Witness ==
    /\ listResp[1] = Response(200, "value", <<>>)
    /\ pc[1] = "done"
    /\ resp[1].status = 404

\* The response reports an upstream failure: a status other than 200, or no
\* result.
UpstreamFailure(response) ==
    response.status # 200 \/ response.kind \in {"noresult", "null"}

\* C8 as stated: on an upstream failure get_wallet_transactions returns an
\* empty sequence and get_transaction_details an empty record, and neither
\* raises.
C8_ClientNeverRaises ==
    \A r \in Requests :
        /\ (pc[r] \notin {"idle", "await_list"} /\ UpstreamFailure(listResp[r]))
              => (resp[r].status # 500 /\ transactions[r] = <<>>)
        /\ (pc[r] = "failed" /\ Len(rpc_log[r]) > 1 /\ idx[r] <= Len(transactions[r]))
              => ~UpstreamFailure(ledger[transactions[r][idx[r]]])

RECURSIVE RunAlone(_, _, _)
\* extract_transaction_flows run on its own over the first n transactions of
\* a listing.
RunAlone(w, txs, n) ==
    IF n = 0 THEN [err |-> "none", flow |-> <<>>, total |-> FZero]
    ELSE LET before == RunAlone(w, txs, n - 1)
         IN IF before.err # "none" THEN before
            ELSE ExtractDetail(w, GetTransactionDetails(ledger[txs[n]]),
                               before.flow, before.total)

\* The calls request r issues when it runs to the end: the listing, then one
\* getTransaction per listed id, in listing order.
CallsOf(r) ==
    <<ListCall(wallet[r])>> \o [i \in 1..Len(transactions[r]) |-> DetailCall(transactions[r][i])]

\* Request r's state is what the request gives when run alone, its calls so
\* far are the first calls of CallsOf, and at most one is unanswered.
AsAlone(r) ==
    /\ rpc_log[r] = SubSeq(CallsOf(r), 1, Len(rpc_log[r]))
    /\ Cardinality(inflight[r]) <= 1
    /\ inflight[r] # {} => (pc[r] \in {"await_list", "await_detail"}
                            /\ inflight[r] = {rpc_log[r][Len(rpc_log[r])]})
    /\ pc[r] \in {"loop", "await_detail"} =>
          LET alone == RunAlone(wallet[r], transactions[r], idx[r] - 1)
          IN /\ flow_dict[r] = alone.flow
             /\ total_volume[r] = alone.total
             /\ Len(rpc_log[r]) = idx[r] + (IF pc[r] = "loop" THEN 0 ELSE 1)
    /\ resp[r].status = 200 =>
          LET alone == RunAlone(wallet[r], transactions[r], Len(transactions[r]))
          IN /\ flow_dict[r] = alone.flow
             /\ total_volume[r] = alone.total
             /\ resp[r].risk_score =
                   assign_risk_score(Len(alone.flow), alone.total, FlowKeys(alone.flow))
             /\ rpc_log[r] = CallsOf(r)

\* A step that is not request r's leaves all of request r's state alone.
Untouched(r) ==
    pc'[r] = pc[r] =>
        /\ transactions'[r] = transactions[r]
        /\ idx'[r] = idx[r]
        /\ flow_dict'[r] = flow_dict[r]
        /\ total_volume'[r] = total_volume[r]
        /\ rpc_log'[r] = rpc_log[r]
        /\ inflight'[r] = inflight[r]
        /\ resp'[r] = resp[r]

\* C9: however two requests interleave, each one's mapping, total volume and
\* risk indicator are those it gives when run alone on the same ledger
\* responses, no step of one changes the state of the other, and each issues
\* the listing call first and then one getTransaction per listed id, in
\* listing order, one at a time.
C9_RequestsIndependent ==
    /\ [](\A r \in Requests : AsAlone(r))
    /\ [][\A r \in Requests : Untouched(r)]_vars

\* C9's case: two requests for different wallets, both in the middle of their
\* listings with entries in their mappings, each awaiting a detail.
C9_Witness ==
    /\ wallet[1] # wallet[2]
    /\ pc[1] = "await_detail" /\ pc[2] = "await_detail"
    /\ idx[1] = 2 /\ idx[2] = 2
    /\ flow_dict[1] # <<>> /\ flow_dict[2] # <<>>
    /\ flow_dict[1] # flow_dict[2]

\* C10 as stated: every counterparty node shows the label built from its own
\* address and count, the wallet's node shows the wallet address, and every
\* label built is used by exactly one node.
C10_LabelsMatchNodes ==
    graph_out # NoGraph =>
        /\ Len(graph_out.node_text) = Len(graph_out.nodes)
        /\ \A k \in 1..Len(graph_out.nodes) :
              graph_out.node_text[k] =
                 IF graph_out.nodes[k].id = graph_in.wallet
                 THEN [text |-> graph_in.wallet, count |-> 0]
                 ELSE NodeLabel(graph_out.nodes[k].id,
                                FlowGet(graph_in.flow, graph_out.nodes[k].id))
        /\ graph_out.left = <<>>
        /\ Len(graph_out.built) =
              Cardinality({k \in 1..Len(graph_out.nodes) :
                              graph_out.nodes[k].id # graph_in.wallet})

====
